---- MODULE Spec2Model ----
(***************************************************************************)
(* Model of picokey/PhyData.py: the PhyData physical-configuration record, *)
(* its mutation API and its TLV codec (serialize / parse).                 *)
(*                                                                         *)
(* Representation.                                                         *)
(*   - Python None is the empty tuple <<>>, a set value v is <<v>>.        *)
(*   - bytes / bytearray are sequences of integers 0..255; the vidpid      *)
(*     buffer also records its Python type ("bytes" is immutable,          *)
(*     "bytearray" is mutable).                                            *)
(*   - a str is a sequence of code points; code points >= 128 are the      *)
(*     non-ASCII characters that encode("ascii", "ignore") drops.          *)
(*   - enabled_curves is an unbounded Python int that reaches 2^32 - 1 on  *)
(*     the wire; it is held as two limbs [hi, lo], value = hi*2^16 + lo,   *)
(*     0 <= lo < 2^16, hi >= 0, so that no arithmetic leaves the range of  *)
(*     the model checker's integers.                                       *)
(*   - an operation returns [o |-> object after, err |-> exception name],  *)
(*     err = "none" when the call returns normally.                        *)
(***************************************************************************)
EXTENDS Integers, Sequences, FiniteSets, TLC

VARIABLES phy, prev, data, err, op, calls, twin, alias

\* phy:  the PhyData object the caller holds
\* prev: phy as it was before the last operation
\* data: the byte buffer last produced by serialize or received for parse
\* err:  the exception the last operation raised, "none" if it returned
\* op:   the last operation called, [name, a (its arguments)]
\* calls: the number of operations called so far
\* twin: a second PhyData object, made by phy.copy()
\* alias: TRUE when phy.vidpid and twin.vidpid are one and the same buffer
vars == <<phy, prev, data, err, op, calls, twin, alias>>

(* ------------------------------------------------------------------ *)
(* Program constants                                                  *)
(* ------------------------------------------------------------------ *)

\* class PhyTag
VIDPID == 0
LED_GPIO == 4
LED_BTNESS == 5
OPTS == 6
UP_BTN == 8
USB_PRODUCT == 9
ENABLED_CURVES == 10
ENABLED_USB_ITF == 11
LED_DRIVER == 12

\* class PhyOpt
OPT_WCID == 1
OPT_DIMM == 2
OPT_DISABLE_POWER_RESET == 4
OPT_LED_STEADY == 8

PhyOpt == {OPT_WCID, OPT_DIMM, OPT_DISABLE_POWER_RESET, OPT_LED_STEADY}

\* class PhyCurve (the members the model's inputs use)
SECP256R1 == 1
SECP256K1 == 8
CURVE448 == 1024

PhyCurve == {SECP256R1, SECP256K1, CURVE448}

\* class PhyUsbItf
ITF_CCID == 1
ITF_WCID == 2
ITF_HID == 4
ITF_KB == 8

\* class KnownVendor (the members the model's inputs use), as <<vid, pid>>
YUBIKEY_4_5 == <<4176, 1031>>
PICO_DEFAULT == <<65279, 64765>>

KnownVendor == {YUBIKEY_4_5, PICO_DEFAULT}

\* Python: a bytes element is in range(0, 256); "& 0xFF" keeps the low byte
B8 == 256
\* 2^16: the range of to_bytes(2, "big"); one limb of enabled_curves
B16 == 65536
\* code points below 128 are ASCII
ASCII_END == 128

(* ------------------------------------------------------------------ *)
(* Python values                                                      *)
(* ------------------------------------------------------------------ *)

None == <<>>

Some(v) == <<v>>

IsNone(f) == Len(f) = 0

Val(f) == f[1]

Min(a, b) == IF a < b THEN a ELSE b

\* seq[a:b] with Python's clamping, 0-based, a <= b
Slice(s, a, b) == SubSeq(s, Min(a, Len(s)) + 1, Min(b, Len(s)))

\* the elements of s below lim, in order
Filter(s, lim) == LET Keep(c) == c < lim IN SelectSeq(s, Keep)

\* str.encode("ascii", "ignore") and bytes.decode("ascii", "ignore"): both
\* drop every element that is not ASCII and keep the rest unchanged
encode_ascii_ignore(s) == Filter(s, ASCII_END)

decode_ascii_ignore(b) == Filter(b, ASCII_END)

\* raw.split(b"\x00", 1)[0] when 0 is in raw, else raw
UpToNull(b) ==
    LET nulls == {i \in 1..Len(b) : b[i] = 0}
    IN IF nulls = {} THEN b
       ELSE SubSeq(b, 1, (CHOOSE i \in nulls : \A j \in nulls : i <= j) - 1)

\* bitwise and of two non-negative integers
RECURSIVE BitAnd(_, _)
BitAnd(a, b) ==
    IF a = 0 \/ b = 0 THEN 0
    ELSE (a % 2) * (b % 2) + 2 * BitAnd(a \div 2, b \div 2)

BitOr(a, b) == a + b - BitAnd(a, b)

\* a & ~b for non-negative a, b
BitClear(a, b) == a - BitAnd(a, b)

\* bytearray(4)
bytearray4 == [kind |-> "bytearray", b |-> <<0, 0, 0, 0>>]

\* Python truthiness of the vidpid attribute: None and empty buffers are falsy
Truthy(vp) == ~IsNone(vp) /\ Len(Val(vp).b) > 0

\* a Python int n >= 0 as the two limbs of enabled_curves
Limbs(hi, lo) == [hi |-> hi, lo |-> lo]

(* ------------------------------------------------------------------ *)
(* PhyData                                                            *)
(* ------------------------------------------------------------------ *)

\* PhyData(): every attribute None, opts 0
PhyData ==
    [vidpid |-> None, led_gpio |-> None, led_brightness |-> None, opts |-> 0,
     up_btn |-> None, usb_product |-> None, enabled_curves |-> None,
     enabled_usb_itf |-> None, led_driver |-> None]

\* property vid / pid: None when vidpid is falsy
vid(o) ==
    IF ~Truthy(o.vidpid) THEN None
    ELSE Some(Val(o.vidpid).b[1] * B8 + Val(o.vidpid).b[2])

pid(o) ==
    IF ~Truthy(o.vidpid) THEN None
    ELSE Some(Val(o.vidpid).b[3] * B8 + Val(o.vidpid).b[4])

\* buf[i] = v, buf[j] = w on a Python buffer (0-based): TypeError on bytes,
\* raised by the first assignment, before anything is written
SetItems(vp, i, v, j, w) ==
    IF vp.kind = "bytes" THEN [vp |-> vp, err |-> "TypeError"]
    ELSE IF i >= Len(vp.b) THEN [vp |-> vp, err |-> "IndexError"]
    ELSE IF j >= Len(vp.b)
         THEN [vp |-> [vp EXCEPT !.b[i + 1] = v], err |-> "IndexError"]
    ELSE [vp |-> [vp EXCEPT !.b[i + 1] = v, !.b[j + 1] = w], err |-> "none"]

\* vid.setter: allocate the pair when absent, then write bytes 0 and 1
set_vid(o, value) ==
    LET vp == IF ~Truthy(o.vidpid) THEN bytearray4 ELSE Val(o.vidpid)
        r == SetItems(vp, 0, (value \div B8) % B8, 1, value % B8)
    IN [o |-> [o EXCEPT !.vidpid = Some(r.vp)], err |-> r.err]

\* the pid setter writing the bytes of the vid
set_pid_low(o, value) ==
    LET vp == IF ~Truthy(o.vidpid) THEN bytearray4 ELSE Val(o.vidpid)
        r == SetItems(vp, 0, (value \div B8) % B8, 1, value % B8)
    IN [o |-> [o EXCEPT !.vidpid = Some(r.vp)], err |-> r.err]

\* pid.setter: allocate the pair when absent, then write bytes 2 and 3
set_pid(o, value) ==
    LET vp == IF ~Truthy(o.vidpid) THEN bytearray4 ELSE Val(o.vidpid)
        r == SetItems(vp, 2, (value \div B8) % B8, 3, value % B8)
    IN [o |-> [o EXCEPT !.vidpid = Some(r.vp)], err |-> r.err]

\* x.to_bytes(2, "big"): OverflowError unless 0 <= x < 2^16
u16be(x) ==
    IF x < 0 \/ x >= B16 THEN [b |-> <<>>, err |-> "OverflowError"]
    ELSE [b |-> <<x \div B8, x % B8>>, err |-> "none"]

\* x.to_bytes(4, "big") of the limbs of x: OverflowError unless x < 2^32
u32be(x) ==
    IF x.hi >= B16 THEN [b |-> <<>>, err |-> "OverflowError"]
    ELSE [b |-> <<x.hi \div B8, x.hi % B8, x.lo \div B8, x.lo % B8>>,
          err |-> "none"]

\* int.from_bytes(buf[off:off+2], "big")
RECURSIVE FromBytes(_)
FromBytes(b) ==
    IF b = <<>> THEN 0 ELSE FromBytes(SubSeq(b, 1, Len(b) - 1)) * B8 + b[Len(b)]

read_u16be(buf, off) == FromBytes(Slice(buf, off, off + 2))

\* int.from_bytes(buf[off:off+4], "big"), as limbs
read_u32be(buf, off) ==
    LET s == Slice(buf, off, off + 4)
        n == Len(s)
    IN Limbs(FromBytes(SubSeq(s, 1, n - 2)),
             FromBytes(SubSeq(s, IF n > 2 THEN n - 1 ELSE 1, n)))

\* bytes([...]): ValueError unless every element is in range(0, 256)
bytes_of(l) ==
    IF \E i \in 1..Len(l) : l[i] < 0 \/ l[i] >= B8
    THEN [b |-> <<>>, err |-> "ValueError"]
    ELSE [b |-> l, err |-> "none"]

\* "b += ..." statements in sequence: the first exception ends the call,
\* otherwise the parts are appended in order
RECURSIVE Concat(_)
Concat(parts) ==
    IF parts = <<>> THEN <<>> ELSE Head(parts).b \o Concat(Tail(parts))

Sequenced(parts) ==
    LET bad == {i \in 1..Len(parts) : parts[i].err # "none"}
    IN IF bad = {} THEN [b |-> Concat(parts), err |-> "none"]
       ELSE [b |-> <<>>,
             err |-> parts[CHOOSE i \in bad : \A j \in bad : i <= j].err]

Then(first, second) == Sequenced(<<first, second>>)

Skip == [b |-> <<>>, err |-> "none"]

\* bytes([tag, 1, x & 0xFF]) when the attribute is set
Emit8(tag, f) ==
    IF IsNone(f) THEN Skip ELSE bytes_of(<<tag, 1, Val(f) % B8>>)

SerVidpid(o) ==
    IF Truthy(o.vidpid)
    THEN Then(bytes_of(<<VIDPID, 4>>), bytes_of(Slice(Val(o.vidpid).b, 0, 4)))
    ELSE Skip

SerOpts(o) == Then(bytes_of(<<OPTS, 2>>), u16be(o.opts))

\* "if self.usb_product:" is false for None and for the empty string
SerUsbProduct(o) ==
    IF ~IsNone(o.usb_product) /\ Val(o.usb_product) # <<>>
    THEN LET s == encode_ascii_ignore(Val(o.usb_product))
         IN Then(bytes_of(<<USB_PRODUCT, Len(s) + 1>>),
                 [b |-> s \o <<0>>, err |-> "none"])
    ELSE Skip

SerCurves(o) ==
    IF ~IsNone(o.enabled_curves)
    THEN Then(bytes_of(<<ENABLED_CURVES, 4>>), u32be(Val(o.enabled_curves)))
    ELSE Skip

\* the statements of serialize in their order, one part for each attribute
Parts(o) ==
    <<SerVidpid(o),
      Emit8(LED_GPIO, o.led_gpio),
      Emit8(LED_BTNESS, o.led_brightness),
      SerOpts(o),
      Emit8(UP_BTN, o.up_btn),
      SerUsbProduct(o),
      SerCurves(o),
      Emit8(ENABLED_USB_ITF, o.enabled_usb_itf),
      Emit8(LED_DRIVER, o.led_driver)>>

\* serialize(self): [b |-> the bytes returned, err |-> the exception raised]
serialize(o) == Sequenced(Parts(o))

(* ------------------------------------------------------------------ *)
(* parse                                                              *)
(* ------------------------------------------------------------------ *)

\* The scan state of parse: the object being filled, the cursor p, whether
\* the loop was left by break, and the exception raised (an index at or
\* beyond len(data) raises IndexError; slices clamp).
ScanInit == [o |-> PhyData, p |-> 0, brk |-> FALSE, err |-> "none"]

\* data[i] is an element: an index at or beyond len(data) raises IndexError
HasIndex(buf, i) == i < Len(buf)

\* the check "if p + tlen > end: break" left out
NeverTruncated(p, tlen, end) == FALSE

\* the check written as "p + tlen >= end"
TruncatedOffByOne(p, tlen, end) == p + tlen >= end

\* the check written as "p + tlen > end + 1"
TruncatedLate(p, tlen, end) == p + tlen > end + 1

\* "if p + tlen > end: break"
Truncated(p, tlen, end) == p + tlen > end

\* one field assignment "o.f = data[p]; p += 1"
Read8(s, buf, f) ==
    IF HasIndex(buf, s.p + 2)
    THEN [s EXCEPT !.o = [s.o EXCEPT ![f] = Some(buf[s.p + 3])], !.p = s.p + 3]
    ELSE [s EXCEPT !.err = "IndexError"]

\* the final else branch leaving the cursor on the payload
NoSkip(p, tlen) == p

\* p += tlen of the final else branch
SkipRecord(p, tlen) == p + tlen

\* raw = data[p:p+tlen]; if 0 in raw: raw = raw.split(b"\x00", 1)[0];
\* raw.decode("ascii", "ignore")
ReadProduct(buf, p, tlen) == decode_ascii_ignore(UpToNull(Slice(buf, p, p + tlen)))

\* One iteration of "while p + 2 <= end", entered with s.p + 2 <= len(data)
ParseBody(s, buf) ==
    LET tag == buf[s.p + 1]
        tlen == buf[s.p + 2]
        p == s.p + 2
    IN IF Truncated(p, tlen, Len(buf)) THEN [s EXCEPT !.p = p, !.brk = TRUE]
       ELSE IF tag = VIDPID /\ tlen = 4
       THEN [s EXCEPT !.o.vidpid = Some([kind |-> "bytes", b |-> Slice(buf, p, p + 4)]),
                      !.p = p + 4]
       ELSE IF tag = LED_GPIO /\ tlen = 1 THEN Read8(s, buf, "led_gpio")
       ELSE IF tag = LED_BTNESS /\ tlen = 1 THEN Read8(s, buf, "led_brightness")
       ELSE IF tag = OPTS /\ tlen = 2
       THEN [s EXCEPT !.o.opts = read_u16be(buf, p), !.p = p + 2]
       ELSE IF tag = UP_BTN /\ tlen = 1 THEN Read8(s, buf, "up_btn")
       ELSE IF tag = USB_PRODUCT /\ tlen > 0
       THEN [s EXCEPT !.o.usb_product = Some(ReadProduct(buf, p, tlen)),
                      !.p = p + tlen]
       ELSE IF tag = ENABLED_CURVES /\ tlen = 4
       THEN [s EXCEPT !.o.enabled_curves = Some(read_u32be(buf, p)), !.p = p + 4]
       ELSE IF tag = ENABLED_USB_ITF /\ tlen = 1 THEN Read8(s, buf, "enabled_usb_itf")
       ELSE IF tag = LED_DRIVER /\ tlen = 1 THEN Read8(s, buf, "led_driver")
       ELSE [s EXCEPT !.p = SkipRecord(p, tlen)]

\* the indices of data one iteration reads, entered with s.p + 2 <= len(data):
\* data[p] and data[p + 1], then data[p] of the one-byte attributes (an index
\* expression, out of range or not), or the bytes a slice data[p:p+tlen]
\* yields (a slice reads only bytes that exist)
ReadsOf(s, buf) ==
    LET tag == buf[s.p + 1]
        tlen == buf[s.p + 2]
        p == s.p + 2
    IN {s.p, s.p + 1} \cup
       (IF Truncated(p, tlen, Len(buf)) THEN {}
        ELSE IF tag \in {LED_GPIO, LED_BTNESS, UP_BTN, ENABLED_USB_ITF, LED_DRIVER}
                /\ tlen = 1
        THEN {p}
        ELSE IF \/ tag = VIDPID /\ tlen = 4
                \/ tag = OPTS /\ tlen = 2
                \/ tag = USB_PRODUCT /\ tlen > 0
                \/ tag = ENABLED_CURVES /\ tlen = 4
        THEN {i \in p..(p + tlen - 1) : i < Len(buf)}
        ELSE {})

\* the loop condition "while p + 2 <= end", and its exits
Scanning(s, buf) == s.p + 2 <= Len(buf) /\ ~s.brk /\ s.err = "none"

RECURSIVE ParseLoop(_, _)
ParseLoop(s, buf) ==
    IF Scanning(s, buf) THEN ParseLoop(ParseBody(s, buf), buf) ELSE s

\* CCID | WCID | HID | KB
AllItf == ITF_CCID + ITF_WCID + ITF_HID + ITF_KB

\* the default-fill left out
NoDefaultItf(o) == o

\* "if o.enabled_usb_itf is None: o.enabled_usb_itf = CCID | WCID | HID | KB"
DefaultItf(o) ==
    IF IsNone(o.enabled_usb_itf) THEN [o EXCEPT !.enabled_usb_itf = Some(AllItf)]
    ELSE o

\* parse(data): [o |-> the PhyData returned, err |-> the exception raised]
parse(buf) ==
    LET s == ParseLoop(ScanInit, buf)
    IN IF s.err # "none" THEN [o |-> s.o, err |-> s.err]
       ELSE [o |-> DefaultItf(s.o), err |-> "none"]

\* the bytes of a vidpid attribute, whatever its Python type
VidpidBytes(vp) == IF IsNone(vp) THEN None ELSE Some(Val(vp).b)

\* __eq__: vars(self) == vars(other); bytes and bytearray compare by content
PhyEq(a, b) ==
    /\ VidpidBytes(a.vidpid) = VidpidBytes(b.vidpid)
    /\ [a EXCEPT !.vidpid = None] = [b EXCEPT !.vidpid = None]

(* ------------------------------------------------------------------ *)
(* Mutation API                                                       *)
(* ------------------------------------------------------------------ *)

Ok(o) == [o |-> o, err |-> "none"]

\* two calls in sequence: an exception in the first ends the caller's
\* statement list
AndThen(r, f(_)) == IF r.err # "none" THEN r ELSE f(r.o)

\* copy(): a new bytearray of the pair when it is truthy, else None
copy(o) ==
    Ok([o EXCEPT !.vidpid =
            IF Truthy(o.vidpid)
            THEN Some([kind |-> "bytearray", b |-> Val(o.vidpid).b])
            ELSE None])

\* set_vidpid(vid, pid): a fresh bytearray(4), then both setters
set_vidpid(o, v, p) ==
    LET SetV(x) == set_vid(x, v)
        SetP(x) == set_pid(x, p)
    IN AndThen(AndThen(Ok([o EXCEPT !.vidpid = Some(bytearray4)]), SetV), SetP)

set_vidpid_from_vendor(o, vendor) == set_vidpid(o, vendor[1], vendor[2])

\* set_led(gpio, brightness, driver): only the arguments that are not None
set_led(o, gpio, brightness, driver) ==
    Ok([o EXCEPT !.led_gpio = IF IsNone(gpio) THEN @ ELSE gpio,
                 !.led_brightness = IF IsNone(brightness) THEN @ ELSE brightness,
                 !.led_driver = IF IsNone(driver) THEN @ ELSE driver])

\* set_option with "+=" and "-=" in place of "|=" and "&= ~"
set_option_add(o, opt, enabled) ==
    [o |-> [o EXCEPT !.opts = IF enabled THEN @ + opt ELSE @ - opt], err |-> "none"]

\* set_option(opt, enabled): opts |= opt, or opts &= ~opt
set_option(o, opt, enabled) ==
    Ok([o EXCEPT !.opts = IF enabled THEN BitOr(@, opt) ELSE BitClear(@, opt)])

\* x | c and x & ~c on the limbs of enabled_curves
LimbsOr(x, c) == Limbs(BitOr(x.hi, c \div B16), BitOr(x.lo, c % B16))

LimbsClear(x, c) == Limbs(BitClear(x.hi, c \div B16), BitClear(x.lo, c % B16))

\* set_curve(curve, enabled): None becomes 0 first
set_curve(o, curve, enabled) ==
    LET cur == IF IsNone(o.enabled_curves) THEN Limbs(0, 0) ELSE Val(o.enabled_curves)
    IN Ok([o EXCEPT !.enabled_curves =
               Some(IF enabled THEN LimbsOr(cur, curve) ELSE LimbsClear(cur, curve))])

\* the is_led_dimmable, is_power_reset_disabled and is_led_steady properties
is_led_dimmable(o) == BitAnd(o.opts, OPT_DIMM) # 0

is_power_reset_disabled(o) == BitAnd(o.opts, OPT_DISABLE_POWER_RESET) # 0

is_led_steady(o) == BitAnd(o.opts, OPT_LED_STEADY) # 0

\* and their setters
set_is_led_dimmable(o, value) == set_option(o, OPT_DIMM, value)

set_is_power_reset_disabled(o, value) == set_option(o, OPT_DISABLE_POWER_RESET, value)

set_is_led_steady(o, value) == set_option(o, OPT_LED_STEADY, value)

(* ------------------------------------------------------------------ *)
(* Bounds and inputs                                                  *)
(* ------------------------------------------------------------------ *)

\* operations called on one object in a run of the lifecycle
MaxOps == 3
\* codec calls in a run of the codec pipelines
MaxPipe == 3
\* characters of a short product name
MaxStr == 2
\* TLV records in a received buffer
MaxRecs == 2

\* str values: NUL, "A", and the non-ASCII U+00E9
Chars == {0, 65, 233}

Strs == UNION {[1..k -> Chars] : k \in 0..MaxStr}

\* "A" * k
LongStr(k) == [i \in 1..k |-> 65]

\* the longest product name one length byte can carry, and the next one
LongNames == {LongStr(B8 - 2), LongStr(B8 - 1)}

\* identifiers written through the API: one in range, one wider than 16 bits
\* (0x10407)
Ids == {4176, 66567}

\* attribute values written by the caller through set_led
GpioArgs == {None, Some(25), Some(281)}
BrightnessArgs == {None, Some(0)}
DriverArgs == {None, Some(255)}

\* a vendor/product pair as set_vidpid leaves it
Pair == [kind |-> "bytearray", b |-> <<16, 80, 4, 7>>]

\* product names: None, or a string of up to MaxStr characters
ProductArgs == {None} \cup {Some(t) : t \in Strs}

\* objects with any subset of the attributes set, each to a value of its width
SubsetConfigs ==
    [vidpid : {None, Some(Pair)}, led_gpio : {None, Some(25)},
     led_brightness : {None, Some(0)}, opts : {0, 10}, up_btn : {None, Some(30)},
     usb_product : ProductArgs, enabled_curves : {None, Some(Limbs(0, 8))},
     enabled_usb_itf : {None, Some(5)}, led_driver : {None, Some(255)}]

\* objects with every attribute set, the integers in and out of their width:
\* 281 and -1 in 8 bits, 65538 and -1 in 16 bits, 2^32 + 1 in 32 bits
FullConfigs ==
    [vidpid : {Some(Pair)}, led_gpio : {Some(25), Some(281), Some(-1)},
     led_brightness : {Some(0)}, opts : {0, 10, 65538, -1}, up_btn : {Some(30)},
     usb_product : {Some(t) : t \in Strs},
     enabled_curves : {Some(Limbs(0, 8)), Some(Limbs(65535, 65535)), Some(Limbs(B16, 1))},
     enabled_usb_itf : {Some(5), Some(261)}, led_driver : {Some(255)}]

\* objects whose product name is at the limit of one length byte
LongConfigs == {[PhyData EXCEPT !.usb_product = Some(t)] : t \in LongNames}

\* the PhyData objects the encode pipeline starts from
Configs == SubsetConfigs \cup FullConfigs \cup LongConfigs

\* TLV records <<tag, length, payload...>> of a received buffer: for each
\* known tag a well-formed record and one of another length, records of the
\* unknown tag 7, and product names with and without a null
Records ==
    { <<VIDPID, 4, 16, 80, 4, 7>>, <<VIDPID, 2, 16, 80>>,
      <<LED_GPIO, 1, 25>>, <<LED_GPIO, 0>>,
      <<LED_BTNESS, 1, 200>>, <<LED_BTNESS, 2, 6, 2>>,
      <<OPTS, 2, 0, 10>>, <<OPTS, 2, 255, 255>>, <<OPTS, 1, 9>>,
      <<UP_BTN, 1, 0>>, <<UP_BTN, 4, 11, 1, 5, 0>>,
      <<USB_PRODUCT, 1, 0>>, <<USB_PRODUCT, 2, 65, 0>>,
      <<USB_PRODUCT, 3, 65, 0, 66>>, <<USB_PRODUCT, 2, 233, 65>>,
      <<USB_PRODUCT, 0>>,
      <<ENABLED_CURVES, 4, 0, 0, 0, 8>>, <<ENABLED_CURVES, 4, 255, 255, 255, 255>>,
      <<ENABLED_CURVES, 1, 8>>,
      <<ENABLED_USB_ITF, 1, 5>>, <<ENABLED_USB_ITF, 2, 4, 1>>,
      <<LED_DRIVER, 1, 255>>, <<LED_DRIVER, 0>>,
      <<7, 0>>, <<7, 3, 4, 1, 25>>, <<255, 1, 6>> }

RECURSIVE Flatten(_)
Flatten(rs) == IF rs = <<>> THEN <<>> ELSE Head(rs) \o Flatten(Tail(rs))

\* a product-name record of the greatest length one length byte can declare,
\* its payload without a null
LongestRecord == <<USB_PRODUCT, B8 - 1>> \o LongStr(B8 - 1)

\* the buffers a device returns: up to MaxRecs records, or the longest record
Buffers ==
    {Flatten(rs) : rs \in UNION {[1..k -> Records] : k \in 0..MaxRecs}}
        \cup {LongestRecord}

\* the buffers the lifecycle reads back from the device
DeviceData == {<<>>, <<VIDPID, 4, 16, 80, 4, 7, OPTS, 2, 0, 10>>}

(* ------------------------------------------------------------------ *)
(* Operations                                                         *)
(* ------------------------------------------------------------------ *)

Called(name, a) == [name |-> name, a |-> a]

\* a mutator call on phy: the object is changed in place, also when the call
\* raises part-way
Mutate(name, a, r) ==
    /\ calls < MaxOps
    /\ phy' = r.o
    /\ prev' = phy
    /\ err' = r.err
    /\ op' = Called(name, a)
    /\ calls' = calls + 1
    /\ UNCHANGED <<data, twin, alias>>

SetVid(v) == Mutate("vid", <<v>>, set_vid(phy, v))

SetPid(p) == Mutate("pid", <<p>>, set_pid(phy, p))

SetVidpid(v, p) == Mutate("set_vidpid", <<v, p>>, set_vidpid(phy, v, p))

SetVidpidFromVendor(vendor) ==
    Mutate("set_vidpid_from_vendor", vendor, set_vidpid_from_vendor(phy, vendor))

SetLed(g, b, d) == Mutate("set_led", <<g, b, d>>, set_led(phy, g, b, d))

SetOption(opt, en) == Mutate("set_option", <<opt, en>>, set_option(phy, opt, en))

SetCurve(c, en) == Mutate("set_curve", <<c, en>>, set_curve(phy, c, en))

SetLedDimmable(v) ==
    Mutate("is_led_dimmable", <<OPT_DIMM, v>>, set_is_led_dimmable(phy, v))

SetPowerResetDisabled(v) ==
    Mutate("is_power_reset_disabled", <<OPT_DISABLE_POWER_RESET, v>>,
           set_is_power_reset_disabled(phy, v))

SetLedSteady(v) ==
    Mutate("is_led_steady", <<OPT_LED_STEADY, v>>, set_is_led_steady(phy, v))

\* phy.up_btn = v and phy.usb_product = s, as configure.py assigns them
SetUpBtn(v) == Mutate("up_btn", <<v>>, Ok([phy EXCEPT !.up_btn = Some(v)]))

SetUsbProduct(t) == Mutate("usb_product", <<t>>, Ok([phy EXCEPT !.usb_product = Some(t)]))

\* phy = phy.copy()
Copy == Mutate("copy", <<>>, copy(phy))

\* data = phy.serialize(); data keeps its value when the call raises
SerializeWithin(bound) ==
    LET r == serialize(phy)
    IN /\ calls < bound
       /\ data' = IF r.err = "none" THEN r.b ELSE data
       /\ err' = r.err
       /\ prev' = phy
       /\ op' = Called("serialize", <<>>)
       /\ calls' = calls + 1
       /\ UNCHANGED <<phy, twin, alias>>

\* phy = PhyData.parse(data[:k]); phy keeps its value when the call raises
ParseWithin(k, bound) ==
    LET r == parse(Slice(data, 0, k))
    IN /\ calls < bound
       /\ data' = Slice(data, 0, k)
       /\ phy' = IF r.err = "none" THEN r.o ELSE phy
       /\ prev' = phy
       /\ err' = r.err
       /\ op' = Called("parse", <<k>>)
       /\ calls' = calls + 1
       /\ UNCHANGED <<twin, alias>>

(* ------------------------------------------------------------------ *)
(* Lifecycle: an object created empty, filled from the device or by   *)
(* the caller, and written back                                       *)
(* ------------------------------------------------------------------ *)

Init ==
    /\ data \in DeviceData
    /\ phy \in {PhyData, parse(data).o}
    /\ prev = PhyData
    /\ err = "none"
    /\ op = Called("init", <<>>)
    /\ calls = 0
    /\ twin = PhyData
    /\ alias = FALSE

Parse == ParseWithin(Len(data), MaxOps)

Serialize == SerializeWithin(MaxOps)

Next ==
    \/ Parse
    \/ Serialize
    \/ Copy
    \/ \E v \in Ids : SetVid(v)
    \/ \E p \in Ids : SetPid(p)
    \/ \E v \in Ids, p \in Ids : SetVidpid(v, p)
    \/ \E vendor \in KnownVendor : SetVidpidFromVendor(vendor)
    \/ \E g \in GpioArgs, b \in BrightnessArgs, d \in DriverArgs : SetLed(g, b, d)
    \/ \E opt \in PhyOpt, en \in BOOLEAN : SetOption(opt, en)
    \/ \E c \in PhyCurve, en \in BOOLEAN : SetCurve(c, en)
    \/ \E v \in BOOLEAN : SetLedDimmable(v)
    \/ \E v \in BOOLEAN : SetPowerResetDisabled(v)
    \/ \E v \in BOOLEAN : SetLedSteady(v)
    \/ \E v \in {30} : SetUpBtn(v)
    \/ \E t \in {<<>>, <<65>>} : SetUsbProduct(t)

Spec == Init /\ [][Next]_vars

(* ------------------------------------------------------------------ *)
(* Encode pipeline: any object, serialized, and the bytes (or a       *)
(* prefix of them) parsed back                                        *)
(* ------------------------------------------------------------------ *)

InitCodec ==
    /\ phy \in Configs
    /\ prev = PhyData
    /\ data = <<>>
    /\ err = "none"
    /\ op = Called("init", <<>>)
    /\ calls = 0
    /\ twin = PhyData
    /\ alias = FALSE

Encode == SerializeWithin(MaxPipe)

\* a prefix is read back only from a freshly serialized buffer
DecodePrefix ==
    /\ op.name = "serialize"
    /\ err = "none"
    /\ \E k \in 0..Len(data) : ParseWithin(k, MaxPipe)

NextCodec == Encode \/ DecodePrefix

SpecCodec == InitCodec /\ [][NextCodec]_vars

(* ------------------------------------------------------------------ *)
(* Decode pipeline: any received buffer, or a prefix of it, parsed,   *)
(* and the result serialized and parsed again                         *)
(* ------------------------------------------------------------------ *)

InitDecode ==
    /\ phy = PhyData
    /\ prev = PhyData
    /\ data \in Buffers
    /\ err = "none"
    /\ op = Called("init", <<>>)
    /\ calls = 0
    /\ twin = PhyData
    /\ alias = FALSE

\* the received buffer may be cut short; a buffer that serialize produced is
\* read back whole
Decode ==
    \/ /\ op.name = "init"
       /\ \E k \in 0..Len(data) : ParseWithin(k, MaxPipe)
    \/ /\ op.name = "serialize"
       /\ err = "none"
       /\ ParseWithin(Len(data), MaxPipe)

Reencode ==
    /\ op.name = "parse"
    /\ SerializeWithin(MaxPipe)

NextDecode == Decode \/ Reencode

SpecDecode == InitDecode /\ [][NextDecode]_vars

(* ------------------------------------------------------------------ *)
(* Two objects: x (phy) and y = x.copy() (twin), each mutated by its  *)
(* own caller                                                         *)
(* ------------------------------------------------------------------ *)

\* operations called on the two objects in a run
MaxCopyOps == 3

\* the objects copy() is called on: empty, decoded from the device, and one
\* filled through the API
CopySources ==
    { PhyData,
      parse(<<VIDPID, 4, 16, 80, 4, 7, OPTS, 2, 0, 10>>).o,
      [vidpid |-> Some(Pair), led_gpio |-> Some(25), led_brightness |-> Some(0),
       opts |-> 2, up_btn |-> Some(30), usb_product |-> Some(<<65>>),
       enabled_curves |-> Some(Limbs(0, 8)), enabled_usb_itf |-> Some(5),
       led_driver |-> Some(255)] }

\* copy() written as "vidpid=self.vidpid": the copy holds the caller's buffer
copy_keeps_vidpid(o) == Truthy(o.vidpid) /\ Val(o.vidpid).kind = "bytearray"

\* copy() passes bytearray(self.vidpid), a new buffer: the copy and the
\* original hold no object in common (int, str and None are immutable)
copy_shares_vidpid(o) == FALSE

Targets == {"x", "y"}

Obj(t) == IF t = "x" THEN phy ELSE twin

CalledOn(t, name, a) == [name |-> name, a |-> a, on |-> t]

\* y = x.copy()
MakeCopy ==
    /\ calls < MaxCopyOps
    /\ twin' = copy(phy).o
    /\ alias' = copy_shares_vidpid(phy)
    /\ prev' = phy
    /\ err' = copy(phy).err
    /\ op' = CalledOn("x", "copy", <<>>)
    /\ calls' = calls + 1
    /\ UNCHANGED <<phy, data>>

\* the vid and pid setters write into the buffer the object already holds;
\* they, and set_vidpid, bind a new buffer otherwise
WritesInPlace(name, o) == name \in {"vid", "pid"} /\ Truthy(o.vidpid)

BindsNewPair(name, o) ==
    \/ name = "set_vidpid"
    \/ name \in {"vid", "pid"} /\ ~Truthy(o.vidpid)

\* a mutator call on the object t; r is the call's result on Obj(t). A write
\* into a buffer both objects hold shows in both
MutateEither(t, name, a, r) ==
    LET seen == alias /\ WritesInPlace(name, Obj(t))
        Other(o) == IF seen THEN [o EXCEPT !.vidpid = r.o.vidpid] ELSE o
    IN /\ op.name # "init"
       /\ calls < MaxCopyOps
       /\ phy' = IF t = "x" THEN r.o ELSE Other(phy)
       /\ twin' = IF t = "y" THEN r.o ELSE Other(twin)
       /\ alias' = (alias /\ ~BindsNewPair(name, Obj(t)))
       /\ prev' = IF t = "x" THEN twin ELSE phy
       /\ err' = r.err
       /\ op' = CalledOn(t, name, a)
       /\ calls' = calls + 1
       /\ UNCHANGED data

InitCopy ==
    /\ phy \in CopySources
    /\ twin = PhyData
    /\ alias = FALSE
    /\ prev = PhyData
    /\ data = <<>>
    /\ err = "none"
    /\ op = CalledOn("x", "init", <<>>)
    /\ calls = 0

NextCopy ==
    \/ MakeCopy
    \/ \E t \in Targets, v \in Ids : MutateEither(t, "vid", <<v>>, set_vid(Obj(t), v))
    \/ \E t \in Targets, p \in Ids : MutateEither(t, "pid", <<p>>, set_pid(Obj(t), p))
    \/ \E t \in Targets :
          MutateEither(t, "set_vidpid", <<66567, 4176>>, set_vidpid(Obj(t), 66567, 4176))
    \/ \E t \in Targets, g \in {None, Some(281)}, b \in BrightnessArgs :
          MutateEither(t, "set_led", <<g, b, None>>, set_led(Obj(t), g, b, None))
    \/ \E t \in Targets, en \in BOOLEAN :
          MutateEither(t, "set_option", <<OPT_DIMM, en>>, set_option(Obj(t), OPT_DIMM, en))
    \/ \E t \in Targets, en \in BOOLEAN :
          MutateEither(t, "set_curve", <<SECP256K1, en>>, set_curve(Obj(t), SECP256K1, en))
    \/ \E t \in Targets :
          MutateEither(t, "up_btn", <<0>>, Ok([Obj(t) EXCEPT !.up_btn = Some(0)]))
    \/ \E t \in Targets :
          MutateEither(t, "usb_product", <<<<66>>>>,
                       Ok([Obj(t) EXCEPT !.usb_product = Some(<<66>>)]))

SpecCopy == InitCopy /\ [][NextCopy]_vars

(* ------------------------------------------------------------------ *)
(* Vocabulary of the properties                                       *)
(* ------------------------------------------------------------------ *)

\* the attributes in the order serialize emits them
Fields ==
    <<"vidpid", "led_gpio", "led_brightness", "opts", "up_btn", "usb_product",
      "enabled_curves", "enabled_usb_itf", "led_driver">>

\* the 8-bit attributes
Fields8 == {"led_gpio", "led_brightness", "up_btn", "enabled_usb_itf", "led_driver"}

\* every attribute holds a value of its declared type: integers within their
\* width, the pair of 4 bytes, the product name ASCII without a NUL and short
\* enough for one length byte
WellTyped(o) ==
    /\ \A f \in Fields8 : IsNone(o[f]) \/ Val(o[f]) \in 0..(B8 - 1)
    /\ o.opts \in 0..(B16 - 1)
    /\ IsNone(o.enabled_curves) \/ Val(o.enabled_curves).hi < B16
    /\ IsNone(o.vidpid) \/ Len(Val(o.vidpid).b) = 4
    /\ \/ IsNone(o.usb_product)
       \/ /\ Len(Val(o.usb_product)) <= B8 - 2
          /\ \A i \in 1..Len(Val(o.usb_product)) :
                Val(o.usb_product)[i] \in 1..(ASCII_END - 1)

\* every optional attribute is set (opts always holds a value)
AllPopulated(o) ==
    \A i \in 1..Len(Fields) : Fields[i] = "opts" \/ ~IsNone(o[Fields[i]])

\* the last call was parse, it returned, and it read the whole of the buffer
\* that serialize made of prev
DecodedWhole ==
    /\ op.name = "parse"
    /\ err = "none"
    /\ serialize(prev).err = "none"
    /\ data = serialize(prev).b

(* ------------------------------------------------------------------ *)
(* C1  Round trip                                                     *)
(* ------------------------------------------------------------------ *)

\* C1: for every well-typed object x with every attribute set,
\* parse(serialize(x)) == x.
C1_RoundTrip ==
    (DecodedWhole /\ AllPopulated(prev) /\ WellTyped(prev)) => PhyEq(phy, prev)

(* ------------------------------------------------------------------ *)
(* C2  parse never raises                                             *)
(* ------------------------------------------------------------------ *)

\* C2: whatever the bytes received (any tag, any length byte, a last record
\* cut short), parse returns an object and raises nothing.
C2_DecodeNeverFails ==
    op.name = "parse" => err = "none"

\* a buffer whose last record is cut short has been parsed
C2_Witness ==
    /\ op.name = "parse"
    /\ calls = 1
    /\ ParseLoop(ScanInit, data).brk
    /\ ~IsNone(phy.led_gpio)

(* ------------------------------------------------------------------ *)
(* C3  Truncation tolerance                                           *)
(* ------------------------------------------------------------------ *)

\* where the record of the i-th attribute ends in serialize(o)
End(o, i) == Len(Concat(SubSeq(Parts(o), 1, i)))

\* the i-th attribute has a record in serialize(o), and all of it lies in the
\* first k bytes
Fits(o, i, k) == Parts(o)[i].b # <<>> /\ End(o, i) <= k

\* attribute f has the same value in a and b (the pair compared by content)
FieldEq(a, b, f) ==
    IF f = "vidpid" THEN VidpidBytes(a.vidpid) = VidpidBytes(b.vidpid)
    ELSE a[f] = b[f]

\* the last call was parse, on a prefix of the buffer serialize made of prev
PrefixDecoded ==
    /\ op.name = "parse"
    /\ serialize(prev).err = "none"
    /\ data = Slice(serialize(prev).b, 0, Len(data))

\* C3 as stated: parse of any prefix of a valid encoded buffer raises nothing
\* and returns exactly the attributes whose records fit in the prefix, every
\* other attribute being unset (opts, which is never None, being 0).
C3_SubsetOnly ==
    PrefixDecoded =>
        /\ err = "none"
        /\ WellTyped(prev) =>
              \A i \in 1..Len(Fields) :
                  IF Fits(prev, i, Len(data)) THEN FieldEq(phy, prev, Fields[i])
                  ELSE phy[Fields[i]] = PhyData[Fields[i]]

\* C3 amended: parse of any prefix of a valid encoded buffer raises nothing;
\* an attribute whose record fits in the prefix has its encoded value, and an
\* attribute whose record does not fit is unset, except enabled_usb_itf, which
\* is then CCID|WCID|HID|KB (opts, which is never None, is then 0).
C3_TruncationTolerance ==
    PrefixDecoded =>
        /\ err = "none"
        /\ WellTyped(prev) =>
              \A i \in 1..Len(Fields) :
                  IF Fits(prev, i, Len(data)) THEN FieldEq(phy, prev, Fields[i])
                  ELSE IF Fields[i] = "enabled_usb_itf"
                       THEN phy.enabled_usb_itf = Some(ITF_CCID + ITF_WCID + ITF_HID + ITF_KB)
                  ELSE phy[Fields[i]] = PhyData[Fields[i]]

\* a fully populated object was encoded and the prefix read back ends inside
\* the product-name record: the records before it fit, the later ones do not
C3_Witness ==
    /\ PrefixDecoded
    /\ WellTyped(prev)
    /\ AllPopulated(prev)
    /\ End(prev, 5) + 2 < Len(data)
    /\ Len(data) < End(prev, 6)
    /\ ~IsNone(phy.up_btn)
    /\ IsNone(phy.usb_product)

(* ------------------------------------------------------------------ *)
(* C4  Empty decode                                                   *)
(* ------------------------------------------------------------------ *)

\* C4: parse of the empty buffer returns an object whose enabled_usb_itf is
\* CCID|WCID|HID|KB = 0xF and whose other attributes are those of PhyData().
C4_EmptyDecode ==
    (op.name = "parse" /\ data = <<>>) =>
        /\ err = "none"
        /\ phy.enabled_usb_itf = Some(15)
        /\ [phy EXCEPT !.enabled_usb_itf = None] = PhyData

\* the empty buffer has been parsed
C4_Witness == op.name = "parse" /\ data = <<>> /\ calls = 1 /\ err = "none"

(* ------------------------------------------------------------------ *)
(* C5  Tolerant skip                                                  *)
(* ------------------------------------------------------------------ *)

\* the wire table: the tags in canonical order and the fixed payload widths
WireTags == <<0, 4, 5, 6, 8, 9, 10, 11, 12>>

WireWidth == [t \in {0, 4, 5, 6, 8, 10, 11, 12} |->
                 IF t \in {0, 10} THEN 4 ELSE IF t = 6 THEN 2 ELSE 1]

\* a record that decode must read into a field: a known tag with its fixed
\* width, or a product name of at least one byte
Recognized(tag, tlen) ==
    \/ tag \in DOMAIN WireWidth /\ tlen = WireWidth[tag]
    \/ tag = 9 /\ tlen > 0

TagAt(buf, p) == buf[p + 1]

LenAt(buf, p) == buf[p + 2]

\* the offsets of the complete records of buf from offset p on, by the
\* declared lengths alone
RECURSIVE FrameStarts(_, _)
FrameStarts(buf, p) ==
    IF p + 2 <= Len(buf) /\ p + 2 + LenAt(buf, p) <= Len(buf)
    THEN <<p>> \o FrameStarts(buf, p + 2 + LenAt(buf, p))
    ELSE <<>>

\* buf with the record at offset p cut out
Without(buf, p) ==
    SubSeq(buf, 1, p) \o SubSeq(buf, p + 2 + LenAt(buf, p) + 1, Len(buf))

\* the scan states of parse, one for each evaluation of the loop condition
RECURSIVE ScanTrace(_, _)
ScanTrace(s, buf) ==
    IF Scanning(s, buf) THEN <<s>> \o ScanTrace(ParseBody(s, buf), buf) ELSE <<s>>

\* C5: a complete record that is not recognized (unknown tag, or known tag
\* with another length than its fixed width) moves the cursor by exactly
\* 2 + its declared length and sets no attribute, and the object returned is
\* the one returned for the buffer without that record.
C5_TolerantSkip ==
    (op.name = "parse" /\ err = "none") =>
        LET starts == FrameStarts(data, 0)
            trace == ScanTrace(ScanInit, data)
        IN \A i \in 1..Len(starts) :
              LET p == starts[i]
              IN ~Recognized(TagAt(data, p), LenAt(data, p)) =>
                    /\ \E j \in 1..(Len(trace) - 1) :
                          /\ trace[j].p = p
                          /\ trace[j + 1].p = p + 2 + LenAt(data, p)
                          /\ trace[j + 1].o = trace[j].o
                          /\ ~trace[j + 1].brk
                    /\ phy = parse(Without(data, p)).o

\* a buffer was parsed in which a skipped record with a payload is followed
\* by a recognized record, which was read into the object
C5_Witness ==
    /\ op.name = "parse"
    /\ calls = 1
    /\ LET starts == FrameStarts(data, 0)
       IN \E i \in 1..(Len(starts) - 1) :
             /\ ~Recognized(TagAt(data, starts[i]), LenAt(data, starts[i]))
             /\ LenAt(data, starts[i]) > 0
             /\ Recognized(TagAt(data, starts[i + 1]), LenAt(data, starts[i + 1]))
    /\ phy # parse(<<>>).o

(* ------------------------------------------------------------------ *)
(* C6  serialize has no failure path                                  *)
(* ------------------------------------------------------------------ *)

\* the record of an 8-bit attribute, its value masked to 8 bits
Masked8(tag, f) == IF IsNone(f) THEN <<>> ELSE <<tag, 1, Val(f) % B8>>

\* the bytes the claim expects of serialize: every integer masked to the
\* width of its field (the pair and the product name as serialize emits them)
MaskedEncoding(o) ==
    Parts(o)[1].b
    \o Masked8(4, o.led_gpio)
    \o Masked8(5, o.led_brightness)
    \o <<6, 2, (o.opts \div B8) % B8, o.opts % B8>>
    \o Masked8(8, o.up_btn)
    \o Parts(o)[6].b
    \o (IF IsNone(o.enabled_curves) THEN <<>>
        ELSE LET c == Val(o.enabled_curves)
             IN <<10, 4, (c.hi \div B8) % B8, c.hi % B8, c.lo \div B8, c.lo % B8>>)
    \o Masked8(11, o.enabled_usb_itf)
    \o Masked8(12, o.led_driver)

\* C6: whatever integers the numeric attributes hold, serialize returns, and
\* each numeric payload is the value masked to the width of its field.
C6_EncodeMasks ==
    (op.name = "serialize" /\ Parts(phy)[6].err = "none") =>
        (err = "none" /\ data = MaskedEncoding(phy))

(* ------------------------------------------------------------------ *)
(* C7  Long product name                                              *)
(* ------------------------------------------------------------------ *)

\* C7: serialize of an object whose product name encodes to more than 254
\* bytes returns a buffer with a product-name record whose length byte is the
\* number of string bytes in it plus one (the trailing null), and parse of
\* that buffer recovers the ASCII string up to the first null.
C7_LongProductName ==
    (/\ op.name = "serialize"
     /\ ~IsNone(phy.usb_product)
     /\ Len(encode_ascii_ignore(Val(phy.usb_product))) > B8 - 2
     /\ \A i \in {1, 2, 3, 4, 5, 7, 8, 9} : Parts(phy)[i].err = "none") =>
        /\ err = "none"
        /\ LET starts == FrameStarts(data, 0)
           IN \E i \in 1..Len(starts) :
                 LET p == starts[i]
                     payload == SubSeq(data, p + 3, p + 2 + LenAt(data, p))
                 IN /\ TagAt(data, p) = 9
                    /\ LenAt(data, p) = Len(UpToNull(payload)) + 1
                    /\ payload[Len(payload)] = 0
                    /\ parse(data).o.usb_product =
                          Some(decode_ascii_ignore(UpToNull(payload)))

(* ------------------------------------------------------------------ *)
(* C8  Emission rule                                                  *)
(* ------------------------------------------------------------------ *)

\* the tags the claim expects in serialize(o), in order: the tag of opts
\* always, the tag of any other attribute exactly when the attribute is set
RECURSIVE ExpectedTags(_, _)
ExpectedTags(o, i) ==
    IF i > Len(Fields) THEN <<>>
    ELSE (IF Fields[i] = "opts" \/ ~IsNone(o[Fields[i]]) THEN <<WireTags[i]>> ELSE <<>>)
         \o ExpectedTags(o, i + 1)

\* C8: the bytes serialize returns are a concatenation of complete TLV
\* records, in the order 0x0, 0x4, 0x5, 0x6, 0x8, 0x9, 0xA, 0xB, 0xC, each tag
\* at most once; the 0x6 record is always there with length 2, and the record
\* of any other attribute is there exactly when the attribute is set.
C8_EmissionRule ==
    (op.name = "serialize" /\ err = "none") =>
        LET starts == FrameStarts(data, 0)
            last == starts[Len(starts)]
        IN /\ starts # <<>>
           /\ last + 2 + LenAt(data, last) = Len(data)
           /\ [i \in 1..Len(starts) |-> TagAt(data, starts[i])] = ExpectedTags(phy, 1)
           /\ \A i \in 1..Len(starts) :
                 Recognized(TagAt(data, starts[i]), LenAt(data, starts[i]))

(* ------------------------------------------------------------------ *)
(* C9  Vendor/product pairing                                         *)
(* ------------------------------------------------------------------ *)

\* C9: after any sequence of operations on an empty or decoded object, vid is
\* None exactly when pid is None and a pair that is present has 4 bytes; the
\* first write of vid (or pid) on an object without a pair leaves the other
\* id 0; set_vidpid(v, p) and set_vidpid_from_vendor((v, p)) return with
\* vid = v mod 2^16 and pid = p mod 2^16.
C9_VidPidPairing ==
    /\ IsNone(vid(phy)) <=> IsNone(pid(phy))
    /\ ~IsNone(phy.vidpid) => Len(Val(phy.vidpid).b) = 4
    /\ (op.name = "vid" /\ IsNone(prev.vidpid)) =>
          (err = "none" /\ vid(phy) = Some(op.a[1] % B16) /\ pid(phy) = Some(0))
    /\ (op.name = "pid" /\ IsNone(prev.vidpid)) =>
          (err = "none" /\ pid(phy) = Some(op.a[1] % B16) /\ vid(phy) = Some(0))
    /\ op.name \in {"set_vidpid", "set_vidpid_from_vendor"} =>
          (err = "none" /\ vid(phy) = Some(op.a[1] % B16)
                        /\ pid(phy) = Some(op.a[2] % B16))

\* pid was written with 0x10407 on an object that had no pair
C9_Witness ==
    /\ op.name = "pid"
    /\ op.a[1] = 66567
    /\ IsNone(prev.vidpid)
    /\ pid(phy) = Some(1031)
    /\ vid(phy) = Some(0)

(* ------------------------------------------------------------------ *)
(* C10  set_option                                                    *)
(* ------------------------------------------------------------------ *)

\* the last call was set_option(F, enabled), directly or through one of the
\* three property setters
OptionCall ==
    op.name \in {"set_option", "is_led_dimmable", "is_power_reset_disabled",
                 "is_led_steady"}

\* C10: after set_option(F, TRUE) a second set_option(F, TRUE) changes
\* nothing; set_option(F, FALSE) on an object where F is clear leaves opts as
\* it was; in every case the bits of opts outside F and every attribute other
\* than opts are unchanged.
C10_SetOption ==
    OptionCall =>
        LET F == op.a[1]
            enabled == op.a[2]
        IN /\ err = "none"
           /\ enabled => set_option(phy, F, TRUE).o = phy
           /\ (~enabled /\ BitAnd(prev.opts, F) = 0) => phy.opts = prev.opts
           /\ BitClear(phy.opts, F) = BitClear(prev.opts, F)
           /\ [phy EXCEPT !.opts = 0] = [prev EXCEPT !.opts = 0]

\* set_option(F, TRUE) was called on an object where F was already set and
\* other flags too
C10_Witness ==
    /\ op.name = "set_option"
    /\ op.a[2]
    /\ BitAnd(prev.opts, op.a[1]) # 0
    /\ BitClear(prev.opts, op.a[1]) # 0
    /\ phy.opts = prev.opts

(* ------------------------------------------------------------------ *)
(* C11  copy() independence                                           *)
(* ------------------------------------------------------------------ *)

\* the last call was a mutator, called on one of the two objects after the
\* copy was made
MutatedOne == op.name \notin {"init", "copy"}

\* C11: y = x.copy() compares equal to x and leaves x as it was; after any
\* mutator call on y (a write of vid or pid alone included) every attribute
\* of x, the bytes of its pair included, is what it was before the call, and
\* after any mutator call on x every attribute of y is what it was.
C11_CopyIndependent ==
    /\ op.name = "copy" => (err = "none" /\ PhyEq(twin, phy) /\ phy = prev)
    /\ MutatedOne => (IF op.on = "y" THEN phy = prev ELSE twin = prev)

\* vid alone was written on the copy of an object that holds a pair: the
\* copy's pair changed and the original's did not
C11_Witness ==
    /\ op.name = "vid"
    /\ op.on = "y"
    /\ err = "none"
    /\ Truthy(prev.vidpid)
    /\ phy = prev
    /\ VidpidBytes(twin.vidpid) # VidpidBytes(phy.vidpid)

(* ------------------------------------------------------------------ *)
(* C12  set_curve called on a flag already in the state asked for     *)
(* ------------------------------------------------------------------ *)

\* the flag c of enabled_curves is already set (en) or already clear (~en)
\* in o; no flag is set in an enabled_curves that is None
CurveAlready(o, c, en) ==
    IF en THEN ~IsNone(o.enabled_curves)
               /\ LimbsOr(Val(o.enabled_curves), c) = Val(o.enabled_curves)
    ELSE IsNone(o.enabled_curves)
         \/ LimbsClear(Val(o.enabled_curves), c) = Val(o.enabled_curves)

\* C12: set_curve(c, TRUE) on an object where c is already set, and
\* set_curve(c, FALSE) on an object where c is already clear (enabled_curves
\* None included), return an object that compares equal to the one before
\* the call and serializes to the same bytes.
C12_SetCurveNoOp ==
    (op.name = "set_curve" /\ CurveAlready(prev, op.a[1], op.a[2])) =>
        /\ err = "none"
        /\ PhyEq(phy, prev)
        /\ serialize(phy) = serialize(prev)

(* ------------------------------------------------------------------ *)
(* C13  The scan of parse stays within the buffer and terminates      *)
(* ------------------------------------------------------------------ *)

\* C13: on every buffer the cursor of parse starts at 0, grows by at least 2
\* in every iteration of the loop, never exceeds len(data), and no iteration
\* reads an index >= len(data); the loop runs at most len(data) / 2 times.
C13_ScanBounded ==
    op.name = "parse" =>
        LET trace == ScanTrace(ScanInit, data)
            iterations == Len(trace) - 1
        IN /\ trace[1].p = 0
           /\ \A j \in 1..iterations :
                 /\ trace[j + 1].p >= trace[j].p + 2
                 /\ ReadsOf(trace[j], data) \subseteq 0..(Len(data) - 1)
           /\ \A j \in 1..Len(trace) : trace[j].p <= Len(data)
           /\ 2 * iterations <= Len(data)
           /\ trace[Len(trace)].err = "none"

\* a buffer was parsed in two iterations, the second a one-byte attribute
\* whose payload is the last byte of the buffer
C13_Witness ==
    /\ op.name = "parse"
    /\ LET trace == ScanTrace(ScanInit, data)
       IN /\ Len(trace) = 3
          /\ trace[3].p = Len(data)
          /\ ~trace[3].brk
          /\ Len(data) - 1 \in ReadsOf(trace[2], data)
          /\ data[trace[2].p + 1] = LED_DRIVER

(* ------------------------------------------------------------------ *)
(* C14  What parse returns can be serialized and parsed again         *)
(* ------------------------------------------------------------------ *)

\* the last call parsed the buffer that serialize made of a parsed object
Reparsed == op.name = "parse" /\ calls > 1

\* C14: for every buffer b, serialize(parse(b)) raises nothing and
\* parse(serialize(parse(b))) == parse(b), also when b holds a product-name
\* record of 255 bytes without a null or one whose payload starts with a
\* null.
C14_DecodeStable ==
    /\ op.name = "serialize" => err = "none"
    /\ Reparsed => (err = "none" /\ PhyEq(phy, prev))

(* ------------------------------------------------------------------ *)
(* C15  vid or pid written alone on a parsed object                   *)
(* ------------------------------------------------------------------ *)

\* the last call wrote vid or pid alone on an object whose pair came from a
\* VIDPID record (parse stores the slice of the buffer, a bytes object)
EditedDecoded ==
    /\ op.name \in {"vid", "pid"}
    /\ ~IsNone(prev.vidpid)
    /\ Val(prev.vidpid).kind = "bytes"

\* C15: on an object parsed from a buffer with a VIDPID record, writing vid
\* alone (or pid alone) returns normally, leaves that id equal to the value
\* written mod 2^16, and leaves the other id and every other attribute as
\* they were.
C15_EditDecoded ==
    EditedDecoded =>
        /\ err = "none"
        /\ IF op.name = "vid"
           THEN vid(phy) = Some(op.a[1] % B16) /\ pid(phy) = pid(prev)
           ELSE pid(phy) = Some(op.a[1] % B16) /\ vid(phy) = vid(prev)
        /\ [phy EXCEPT !.vidpid = None] = [prev EXCEPT !.vidpid = None]

====
